---- MODULE Spec2Model ----
(***************************************************************************)
(* VLSM subnet calculator (Subnetting-rust): model of src/subnet.rs        *)
(* (Subnet::new, Subnet::calculate and their helpers) and of               *)
(* src/subnets_calculator.rs (SubnetCalculator::calculate).                *)
(*                                                                         *)
(* A u32 / Ipv4Addr is a sequence of 32 bits, most significant bit first,  *)
(* so that wrapping, saturation and shifts behave as in the 32-bit code.   *)
(* A string holding an address is a sequence of fields (the text between   *)
(* the dots), each field a sequence of decimal digits.                     *)
(***************************************************************************)
EXTENDS Integers, Sequences, FiniteSets

VARIABLES overflow_checks, args, subnet, sn_state, result, calls, before,
          num_hosts_array, subnets, network_tmp, cidr_tmp, idx, pc,
          calc_args, calc_result

subnet_vars == <<args, subnet, sn_state, result, calls, before>>
calc_vars == <<num_hosts_array, subnets, network_tmp, cidr_tmp, idx, pc,
               calc_args, calc_result>>
vars == <<overflow_checks, subnet_vars, calc_vars>>

\* ------------------------------------------------------------------ bounds
MaxSmallHosts == 17
MaxCidr == 34
MaxCalls == 2
MaxSubnets == 3

\* --------------------------------------------------------------- constants
IPV4_BITS == 32
MAX_OCTET_VALUE == 255

\* ------------------------------------------------ u32 as four octets
\* A u32 is the tuple of its four bytes, most significant first: the octets
\* of the Ipv4Addr it converts to and from.
Zero32 == <<0, 0, 0, 0>>
\* u32::MAX
Max32 == <<MAX_OCTET_VALUE, MAX_OCTET_VALUE, MAX_OCTET_VALUE, MAX_OCTET_VALUE>>

\* the u32 of a natural number below 2^31
FromNat(n) == <<n \div 16777216, (n \div 65536) % 256, (n \div 256) % 256, n % 256>>

\* u32::pow(2, k) for k <= 31 (no overflow there)
Pow2(k) ==
    LET oct(j) == IF j = 4 - (k \div 8) THEN 2 ^ (k % 8) ELSE 0
    IN <<oct(1), oct(2), oct(3), oct(4)>>

\* bit i of x, bit 1 the most significant and bit 32 the least significant
BitAt(x, i) == (x[((i - 1) \div 8) + 1] \div (2 ^ (7 - ((i - 1) % 8)))) % 2

\* bitwise and / or of two octets
RECURSIVE And8(_, _, _)
And8(a, b, n) ==
    IF n = 0 THEN 0 ELSE 2 * And8(a \div 2, b \div 2, n - 1) + (a % 2) * (b % 2)
RECURSIVE Or8(_, _, _)
Or8(a, b, n) ==
    IF n = 0 THEN 0
    ELSE 2 * Or8(a \div 2, b \div 2, n - 1) + (IF (a % 2) + (b % 2) >= 1 THEN 1 ELSE 0)

\* !a, a & b, a | b
Not32(a) == <<MAX_OCTET_VALUE - a[1], MAX_OCTET_VALUE - a[2], MAX_OCTET_VALUE - a[3], MAX_OCTET_VALUE - a[4]>>
And32(a, b) == <<And8(a[1], b[1], 8), And8(a[2], b[2], 8), And8(a[3], b[3], 8), And8(a[4], b[4], 8)>>
Or32(a, b) == <<Or8(a[1], b[1], 8), Or8(a[2], b[2], 8), Or8(a[3], b[3], 8), Or8(a[4], b[4], 8)>>

\* octet k of x, zero outside the word
OctetOr0(x, k) == IF k >= 1 /\ k <= 4 THEN x[k] ELSE 0

\* x << s and x >> s for s < 32
Shl(x, s) ==
    LET q == s \div 8
        r == s % 8
        oct(k) == ((OctetOr0(x, k + q) * (2 ^ r)) % 256) + (OctetOr0(x, k + q + 1) \div (2 ^ (8 - r)))
    IN <<oct(1), oct(2), oct(3), oct(4)>>
Shr(x, s) ==
    LET q == s \div 8
        r == s % 8
        oct(k) == (OctetOr0(x, k - q) \div (2 ^ r)) + ((OctetOr0(x, k - q - 1) * (2 ^ (8 - r))) % 256)
    IN <<oct(1), oct(2), oct(3), oct(4)>>

\* a + b + cin, octet by octet from the least significant one: the wrapped
\* sum and the carry out of the word
AddCarry(a, b, cin) ==
    LET s4 == a[4] + b[4] + cin
        s3 == a[3] + b[3] + (s4 \div 256)
        s2 == a[2] + b[2] + (s3 \div 256)
        s1 == a[1] + b[1] + (s2 \div 256)
    IN [val |-> <<s1 % 256, s2 % 256, s3 % 256, s4 % 256>>, carry |-> s1 \div 256]

\* a + b and a - b in u32: the wrapped value and whether the exact result left the range
Add32(a, b) == LET r == AddCarry(a, b, 0) IN [val |-> r.val, overflow |-> r.carry = 1]
Sub32(a, b) == LET r == AddCarry(a, Not32(b), 1) IN [val |-> r.val, overflow |-> r.carry = 0]

Less32(a, b) == Sub32(a, b).overflow
Leq32(a, b) == ~Less32(b, a)

\* u32::leading_zeros
LeadingZeros(x) ==
    IF x = Zero32 THEN IPV4_BITS
    ELSE (CHOOSE i \in 1..IPV4_BITS : BitAt(x, i) = 1 /\ \A j \in 1..(i - 1) : BitAt(x, j) = 0) - 1

\* Ipv4Addr::new(a, b, c, d) and Ipv4Addr::octets
Ipv4(a, b, c, d) == <<a, b, c, d>>
Octet(ip, k) == ip[k]

\* --------------------------------------------------------------- strings
\* the decimal digits of an octet, as Display for Ipv4Addr writes them
Digits(n) ==
    IF n < 10 THEN <<n>>
    ELSE IF n < 100 THEN <<n \div 10, n % 10>>
    ELSE <<n \div 100, (n \div 10) % 10, n % 10>>

\* a faulty variant of to_string: every field padded to three digits
PadDigits(n) == <<n \div 100, (n \div 10) % 10, n % 10>>
to_string_padded(ip) == <<PadDigits(Octet(ip, 1)), PadDigits(Octet(ip, 2)), PadDigits(Octet(ip, 3)), PadDigits(Octet(ip, 4))>>

\* Ipv4Addr::to_string: four decimal fields
to_string(ip) == <<Digits(Octet(ip, 1)), Digits(Octet(ip, 2)), Digits(Octet(ip, 3)), Digits(Octet(ip, 4))>>

\* the number a field of at most three digits reads as
FieldValue(f) ==
    IF Len(f) = 1 THEN f[1]
    ELSE IF Len(f) = 2 THEN 10 * f[1] + f[2]
    ELSE 100 * f[1] + 10 * f[2] + f[3]

\* a field the address parser accepts: one to three digits, no leading zero
\* before another digit, value within an octet
FieldOk(f) ==
    /\ Len(f) >= 1
    /\ Len(f) <= 3
    /\ (Len(f) > 1 => f[1] # 0)
    /\ FieldValue(f) <= MAX_OCTET_VALUE

\* str.parse::<Ipv4Addr>() succeeds
Parses(s) == Len(s) = 4 /\ \A k \in 1..4 : FieldOk(s[k])

\* Subnet::string_to_ip
string_to_ip(s) ==
    IF Parses(s)
    THEN [tag |-> "Ok", val |-> Ipv4(FieldValue(s[1]), FieldValue(s[2]), FieldValue(s[3]), FieldValue(s[4]))]
    ELSE [tag |-> "InvalidIpAddress", val |-> s]

\* ---------------------------------------------------------------- Subnet
\* a faulty variant of MaskShift: u32::MAX.wrapping_shl(s), which shifts by s mod 32
MaskShift_wrapping(s) == Shl(Max32, s % IPV4_BITS)

\* u32::checked_shl(s).unwrap_or(0) on u32::MAX
MaskShift(s) == IF s >= IPV4_BITS THEN Zero32 ELSE Shl(Max32, s)

\* Subnet::cidr_to_mask
cidr_to_mask(cidr) ==
    IF cidr > IPV4_BITS
    THEN [tag |-> "InvalidCidr", val |-> cidr]
    ELSE [tag |-> "Ok", val |-> MaskShift(IPV4_BITS - cidr)]

\* Subnet::determine_class
determine_class(cidr) ==
    IF cidr <= 8 THEN "A"
    ELSE IF cidr <= 16 THEN "B"
    ELSE IF cidr <= 24 THEN "C"
    ELSE IF cidr <= 32 THEN "D"
    ELSE "E"

\* the struct Subnet as Subnet::new fills it
NewStruct(network, mask, cidr, hosts) ==
    [network |-> network, mask |-> mask, cidr |-> cidr,
     broadcast |-> Ipv4(0, 0, 0, 0), gateway |-> Ipv4(0, 0, 0, 0),
     first_host |-> Ipv4(0, 0, 0, 0), last_host |-> Ipv4(0, 0, 0, 0),
     hosts |-> hosts, real_hosts |-> FromNat(0),
     class |-> determine_class(cidr),
     next_subnet |-> Ipv4(0, 0, 0, 0), next_cidr |-> 0]

\* the value of the variable subnet while no Subnet exists
NoSubnet == NewStruct(Zero32, Zero32, 0, Zero32)

\* Subnet::new
Subnet_new(network, cidr, hosts) ==
    LET ip == string_to_ip(network)
        mask == cidr_to_mask(cidr)
    IN IF ip.tag # "Ok" THEN [tag |-> ip.tag, err |-> [tag |-> ip.tag, val |-> ip.val], self |-> NoSubnet]
       ELSE IF mask.tag # "Ok" THEN [tag |-> mask.tag, err |-> [tag |-> mask.tag, val |-> mask.val], self |-> NoSubnet]
       ELSE [tag |-> "Ok", err |-> [tag |-> "Ok", val |-> 0],
             self |-> NewStruct(ip.val, mask.val, cidr, hosts)]

\* u32::one_less_than_next_power_of_two
one_less_than_next_power_of_two(x) ==
    IF Leq32(x, FromNat(1)) THEN Zero32
    ELSE Shr(Max32, LeadingZeros(Sub32(x, FromNat(1)).val))

\* u32::next_power_of_two: the + 1 overflows for x > 2^31
next_power_of_two(x) == Add32(one_less_than_next_power_of_two(x), FromNat(1))

\* (p as f32).log2().ceil() as u32, for p = 0 or a power of two, the values
\* next_power_of_two returns (f32 holds them exactly; log2(0) = -inf casts to 0)
Log2Ceil(p) == IF p = Zero32 THEN 0 ELSE IPV4_BITS - 1 - LeadingZeros(p)

\* a faulty variant of LastHostMask: 252 for 253
LastHostMask_252 == Ipv4(MAX_OCTET_VALUE, MAX_OCTET_VALUE, MAX_OCTET_VALUE, 252)

\* the masks of the gateway and of the last host
GatewayMask == Ipv4(MAX_OCTET_VALUE, MAX_OCTET_VALUE, MAX_OCTET_VALUE, 254)
LastHostMask == Ipv4(MAX_OCTET_VALUE, MAX_OCTET_VALUE, MAX_OCTET_VALUE, 253)

\* ipnet's Ipv4Addr::saturating_add(1)
SaturatingAdd1(ip) ==
    LET s == Add32(ip, FromNat(1)) IN IF s.overflow THEN Max32 ELSE s.val

\* a faulty variant of CalcFields: the block moves itself to the next
\* subnet instead of only recording it
CalcFields_moving(self, new_cidr, new_mask) ==
    LET broadcast == Or32(self.network, Not32(new_mask))
    IN [self EXCEPT !.network = SaturatingAdd1(broadcast),
                    !.broadcast = broadcast,
                    !.gateway = And32(broadcast, Ipv4(MAX_OCTET_VALUE, MAX_OCTET_VALUE, MAX_OCTET_VALUE, 254)),
                    !.first_host = Or32(self.network, Ipv4(0, 0, 0, 1)),
                    !.last_host = And32(broadcast, Ipv4(MAX_OCTET_VALUE, MAX_OCTET_VALUE, MAX_OCTET_VALUE, 253)),
                    !.next_subnet = SaturatingAdd1(broadcast),
                    !.next_cidr = new_cidr]

\* the assignments of Subnet::calculate after the mask is computed
CalcFields(self, new_cidr, new_mask) ==
    LET broadcast == Or32(self.network, Not32(new_mask))
    IN [self EXCEPT !.broadcast = broadcast,
                    !.gateway = And32(broadcast, GatewayMask),
                    !.first_host = Or32(self.network, Ipv4(0, 0, 0, 1)),
                    !.last_host = And32(broadcast, LastHostMask),
                    !.next_subnet = SaturatingAdd1(broadcast),
                    !.next_cidr = new_cidr]

\* Subnet::calculate under a build with (checks) or without overflow checks:
\* an arithmetic overflow panics with them and wraps without them
Subnet_calculate(self, checks) ==
    LET npot == next_power_of_two(self.hosts)
        cidr_offset == Log2Ceil(npot.val)
        real_hosts == Sub32(Pow2(cidr_offset), FromNat(2))
        new_cidr == IPV4_BITS - cidr_offset
        new_mask == cidr_to_mask(new_cidr)
        self1 == [self EXCEPT !.real_hosts = real_hosts.val]
    IN IF checks /\ (npot.overflow \/ real_hosts.overflow)
       THEN [tag |-> "Panic", err |-> [tag |-> "Panic", val |-> 0], self |-> self]
       ELSE IF new_mask.tag # "Ok"
       THEN [tag |-> new_mask.tag, err |-> [tag |-> new_mask.tag, val |-> new_mask.val], self |-> self1]
       ELSE [tag |-> "Ok", err |-> [tag |-> "Ok", val |-> 0],
             self |-> CalcFields(self1, new_cidr, new_mask.val)]

\* ---------------------------------------------------------------- inputs
Str(a, b, c, d) == <<Digits(a), Digits(b), Digits(c), Digits(d)>>

ValidNetworks == {Str(192, 168, 1, 0), Str(10, 0, 0, 1), Str(255, 255, 255, 252)}
InvalidNetworks == {<<Digits(192), Digits(168), Digits(1)>>,
                    <<Digits(192), Digits(168), <<0, 1>>, Digits(0)>>,
                    <<<<2, 5, 6>>, Digits(1), Digits(1), Digits(1)>>}
Networks == ValidNetworks \cup InvalidNetworks

Cidrs == 0..MaxCidr

\* 2^30 - 2, the top of the range the usable-host rule is stated for
TopHosts == 2 ^ 30 - 2

BigHosts == {FromNat(50), FromNat(300), FromNat(65536), FromNat(TopHosts),
             FromNat(TopHosts + 2), Pow2(31), Add32(Pow2(31), FromNat(1)).val, Max32}
Hosts == {FromNat(n) : n \in 0..MaxSmallHosts} \cup BigHosts

\* --------------------------------------------------- a single Subnet
IdleCalc ==
    /\ num_hosts_array = <<>>
    /\ subnets = <<>>
    /\ network_tmp = <<>>
    /\ cidr_tmp = 0
    /\ idx = 0
    /\ pc = "idle"
    /\ calc_args = [network |-> <<>>, cidr |-> 0, hosts |-> <<>>]
    /\ calc_result = [tag |-> "None", val |-> 0]

IdleSubnet ==
    /\ args = [network |-> <<>>, cidr |-> 0, hosts |-> Zero32]
    /\ subnet = NoSubnet
    /\ sn_state = "none"
    /\ result = [tag |-> "None", val |-> 0]
    /\ calls = 0
    /\ before = [subnet |-> NoSubnet, result |-> [tag |-> "None", val |-> 0]]

\* no Subnet built yet; the build either checks arithmetic overflow (debug
\* profile) or lets it wrap (release profile)
InitSubnet ==
    /\ overflow_checks \in BOOLEAN
    /\ IdleSubnet
    /\ IdleCalc

\* let s = Subnet::new(network, cidr, hosts)
New ==
    /\ sn_state = "none"
    /\ \E network \in Networks, cidr \in Cidrs, hosts \in Hosts :
          LET r == Subnet_new(network, cidr, hosts)
          IN /\ args' = [network |-> network, cidr |-> cidr, hosts |-> hosts]
             /\ subnet' = r.self
             /\ result' = r.err
             /\ sn_state' = IF r.tag = "Ok" THEN "new" ELSE "new_failed"
    /\ UNCHANGED <<overflow_checks, calls, before, calc_vars>>

\* s.calculate(); before keeps the object and the result as they were when
\* the call began. A panic ends the process.
Calculate ==
    /\ sn_state \in {"new", "calculated", "calculate_failed"}
    /\ calls < MaxCalls
    /\ LET r == Subnet_calculate(subnet, overflow_checks)
       IN /\ subnet' = r.self
          /\ result' = r.err
          /\ sn_state' = IF r.tag = "Ok" THEN "calculated"
                         ELSE IF r.tag = "Panic" THEN "panicked" ELSE "calculate_failed"
    /\ before' = [subnet |-> subnet, result |-> result]
    /\ calls' = calls + 1
    /\ UNCHANGED <<overflow_checks, args, calc_vars>>

NextSubnet == New \/ Calculate

SpecSubnet == InitSubnet /\ [][NextSubnet]_vars

\* ------------------------------------------------ SubnetCalculator
\* the place of x in a descending list: after every element that is >= x
\* (sort_by(|a, b| b.cmp(a)) is a stable sort)
RECURSIVE InsertDesc(_, _)
InsertDesc(x, s) ==
    IF s = <<>> THEN <<x>>
    ELSE IF Less32(s[1], x) THEN <<x>> \o s
    ELSE <<s[1]>> \o InsertDesc(x, Tail(s))

\* self.num_hosts_array.sort_by(|a, b| b.cmp(a))
RECURSIVE SortDesc(_)
SortDesc(s) ==
    IF s = <<>> THEN <<>>
    ELSE InsertDesc(s[Len(s)], SortDesc(SubSeq(s, 1, Len(s) - 1)))

CalcNetworks == {Str(192, 168, 1, 0), Str(255, 255, 255, 252),
                 <<Digits(192), Digits(168), Digits(1)>>}
CalcCidrs == {24, 30, 33}
CalcHosts == {FromNat(0), FromNat(2), FromNat(4), FromNat(10), FromNat(50)}

HostArrays == UNION {[1..n -> CalcHosts] : n \in 0..MaxSubnets}

\* SubnetCalculator::new(num_hosts_array)
InitCalc ==
    /\ overflow_checks \in BOOLEAN
    /\ IdleSubnet
    /\ num_hosts_array \in HostArrays
    /\ subnets = <<>>
    /\ network_tmp = <<>>
    /\ cidr_tmp = 0
    /\ idx = 0
    /\ pc = "constructed"
    /\ calc_args = [network |-> <<>>, cidr |-> 0, hosts |-> num_hosts_array]
    /\ calc_result = [tag |-> "None", val |-> 0]

\* calculator.calculate(network, cidr), up to the loop
CalcStart ==
    /\ pc = "constructed"
    /\ \E network \in CalcNetworks, cidr \in CalcCidrs :
          /\ calc_args' = [network |-> network, cidr |-> cidr, hosts |-> num_hosts_array]
          /\ network_tmp' = network
          /\ cidr_tmp' = cidr
    /\ num_hosts_array' = SortDesc(num_hosts_array)
    /\ idx' = 1
    /\ pc' = "loop"
    /\ UNCHANGED <<overflow_checks, subnet_vars, subnets, calc_result>>

\* one iteration of the loop over num_hosts_array
CalcIter ==
    /\ pc = "loop"
    /\ idx <= Len(num_hosts_array)
    /\ LET n == Subnet_new(network_tmp, cidr_tmp, num_hosts_array[idx])
           c == Subnet_calculate(n.self, overflow_checks)
       IN IF n.tag # "Ok"
          THEN /\ pc' = "returned"
               /\ calc_result' = n.err
               /\ UNCHANGED <<subnets, network_tmp, cidr_tmp, idx>>
          ELSE IF c.tag = "Panic"
          THEN /\ pc' = "panicked"
               /\ UNCHANGED <<subnets, network_tmp, cidr_tmp, idx, calc_result>>
          ELSE IF c.tag # "Ok"
          THEN /\ pc' = "returned"
               /\ calc_result' = c.err
               /\ UNCHANGED <<subnets, network_tmp, cidr_tmp, idx>>
          ELSE /\ subnets' = Append(subnets, c.self)
               /\ network_tmp' = to_string(c.self.next_subnet)
               /\ cidr_tmp' = c.self.next_cidr
               /\ idx' = idx + 1
               /\ UNCHANGED <<pc, calc_result>>
    /\ UNCHANGED <<overflow_checks, subnet_vars, num_hosts_array, calc_args>>

\* the loop is over: Ok(())
CalcReturn ==
    /\ pc = "loop"
    /\ idx > Len(num_hosts_array)
    /\ pc' = "returned"
    /\ calc_result' = [tag |-> "Ok", val |-> 0]
    /\ UNCHANGED <<overflow_checks, subnet_vars, num_hosts_array, subnets,
                   network_tmp, cidr_tmp, idx, calc_args>>

NextCalc == CalcStart \/ CalcIter \/ CalcReturn

SpecCalc == InitCalc /\ [][NextCalc]_vars

\* ================================================== properties: Subnet
\* the smallest k with 2^k - 2 >= h, for 0 < h <= 2^30 - 2
SmallestK(h) == CHOOSE k \in 0..30 : 2 ^ k - 2 >= h /\ \A j \in 0..(k - 1) : 2 ^ j - 2 < h

\* the number a u32 below 2^31 stands for
ToNat(x) == 16777216 * x[1] + 65536 * x[2] + 256 * x[3] + x[4]

\* calculate() has returned Ok on the block
Calculated == sn_state = "calculated" /\ calls >= 1

\* C1: after calculate() on a block with 0 < hosts <= 2^30 - 2, real_hosts is
\* 2^k - 2 for the smallest k with 2^k - 2 >= hosts, so hosts <= real_hosts.
C1_UsableHosts ==
    (/\ calls >= 1
     /\ args.hosts # Zero32
     /\ Leq32(args.hosts, FromNat(TopHosts)))
    => /\ Calculated
       /\ subnet.real_hosts = FromNat(2 ^ SmallestK(ToNat(args.hosts)) - 2)
       /\ Leq32(subnet.hosts, subnet.real_hosts)

\* C4: after calculate() succeeds the stored mask is the mask of the
\* recomputed prefix 32 - k, and broadcast = network | !mask for that stored mask.
C4_StoredMaskRecomputed ==
    Calculated
    => /\ subnet.mask = cidr_to_mask(subnet.next_cidr).val
       /\ subnet.broadcast = Or32(subnet.network, Not32(subnet.mask))

\* C5: for every calculated block with hosts > 0, first_host and last_host lie
\* strictly between network and broadcast.
C5_HostsStrictlyInside ==
    (Calculated /\ subnet.hosts # Zero32)
    => /\ Less32(subnet.network, subnet.first_host)
       /\ Less32(subnet.first_host, subnet.broadcast)
       /\ Less32(subnet.network, subnet.last_host)
       /\ Less32(subnet.last_host, subnet.broadcast)

\* C6: calculate() never aborts and never wraps: 2^k - 2 is computed without
\* leaving the u32 range, and a host count above 2^31, for which no block of
\* the IPv4 space is large enough, makes it return InvalidCidr.
C6_NoSilentOverflow ==
    calls >= 1
    => /\ sn_state # "panicked"
       /\ (Calculated => ~Sub32(Pow2(IPV4_BITS - subnet.next_cidr), FromNat(2)).overflow)
       /\ (Less32(Pow2(31), args.hosts) => result.tag = "InvalidCidr")

\* C7: Subnet::new returns InvalidIpAddress with the input string when the
\* string does not parse (whatever the prefix), InvalidCidr with the prefix
\* when the string parses and the prefix is above 32, and otherwise a Subnet
\* whose derived addresses, real_hosts and next_cidr are zero and whose mask
\* is cidr 1-bits followed by 0-bits.
C7_NewContract ==
    (calls = 0 /\ sn_state # "none")
    => IF ~Parses(args.network)
       THEN /\ sn_state = "new_failed"
            /\ result.tag = "InvalidIpAddress"
            /\ result.val = args.network
       ELSE IF args.cidr > 32
       THEN /\ sn_state = "new_failed"
            /\ result.tag = "InvalidCidr"
            /\ result.val = args.cidr
       ELSE /\ sn_state = "new"
            /\ result.tag = "Ok"
            /\ subnet.cidr = args.cidr
            /\ subnet.hosts = args.hosts
            /\ subnet.broadcast = <<0, 0, 0, 0>>
            /\ subnet.gateway = <<0, 0, 0, 0>>
            /\ subnet.first_host = <<0, 0, 0, 0>>
            /\ subnet.last_host = <<0, 0, 0, 0>>
            /\ subnet.next_subnet = <<0, 0, 0, 0>>
            /\ subnet.real_hosts = <<0, 0, 0, 0>>
            /\ subnet.next_cidr = 0
            /\ \A i \in 1..32 : BitAt(subnet.mask, i) = (IF i <= args.cidr THEN 1 ELSE 0)

\* a Subnet built with prefix 0, whose mask needs the shift by 32 bits
C7_Witness ==
    /\ calls = 0
    /\ sn_state = "new"
    /\ args.cidr = 0
    /\ subnet.mask = <<0, 0, 0, 0>>
    /\ subnet.network = <<10, 0, 0, 1>>

\* C8: a second calculate() on a calculated block leaves every field as the
\* first call left it and returns the same result.
C8_Idempotent ==
    (calls >= 2 /\ before.result.tag = "Ok")
    => /\ subnet = before.subnet
       /\ result = before.result

\* a block for 50 hosts calculated twice
C8_Witness ==
    /\ calls = 2
    /\ sn_state = "calculated"
    /\ subnet.hosts = FromNat(50)
    /\ subnet.real_hosts = FromNat(62)
    /\ before.subnet.next_subnet = <<192, 168, 1, 64>>

\* the shortcut agrees with the 32-bit subtraction on the block
ShortcutExact ==
    /\ subnet.gateway = Sub32(subnet.broadcast, FromNat(1)).val
    /\ subnet.last_host = Sub32(subnet.broadcast, FromNat(2)).val

\* C9 as stated: the masking shortcut gives broadcast - 1 and broadcast - 2 for
\* every block whose computed prefix is >= 24 and something else for every
\* block whose computed prefix is < 24.
C9_AsStated ==
    Calculated
    => /\ (subnet.next_cidr >= 24 => ShortcutExact)
       /\ (subnet.next_cidr < 24 => ~ShortcutExact)

\* C9 amended: the masking shortcut gives gateway = broadcast - 1 and
\* last_host = broadcast - 2 for every block whose computed prefix is <= 30,
\* the prefixes below 24 included; it differs only at computed prefix 31 or 32.
C9_ShortcutExactUpTo30 ==
    Calculated
    => /\ (subnet.next_cidr <= 30 => ShortcutExact)
       /\ (~ShortcutExact => subnet.next_cidr \in {31, 32})

\* a /16 block, where broadcast - 2 is still what the shortcut gives
C9_Witness ==
    /\ Calculated
    /\ subnet.next_cidr = 16
    /\ subnet.broadcast = <<192, 168, 255, 255>>
    /\ subnet.gateway = <<192, 168, 255, 254>>
    /\ subnet.last_host = <<192, 168, 255, 253>>

\* ======================================== properties: SubnetCalculator
\* C2: the blocks are contiguous and pairwise disjoint: the first starts at the
\* base network, every later one at the previous broadcast + 1, and no two
\* share an address.
C2_DisjointContiguous ==
    subnets # <<>>
    => /\ subnets[1].network = string_to_ip(calc_args.network).val
       /\ \A i \in 1..(Len(subnets) - 1) :
             /\ ~Add32(subnets[i].broadcast, FromNat(1)).overflow
             /\ subnets[i + 1].network = Add32(subnets[i].broadcast, FromNat(1)).val
             /\ subnets[i + 1].network = subnets[i].next_subnet
       /\ \A i, j \in 1..Len(subnets) :
             i < j => Less32(subnets[i].broadcast, subnets[j].network)

\* C3: 192.168.1.0/24 with hosts [10, 50, 2] is processed as [50, 10, 2] and
\* gives three blocks from 192.168.1.0 with prefixes 26, 28, 30 and usable
\* hosts 62, 14, 2, the second starting at the first's next_subnet.
C3_Example ==
    (/\ pc \in {"returned", "panicked"}
     /\ calc_args.network = Str(192, 168, 1, 0)
     /\ calc_args.cidr = 24
     /\ calc_args.hosts = <<FromNat(10), FromNat(50), FromNat(2)>>)
    => /\ pc = "returned"
       /\ calc_result.tag = "Ok"
       /\ num_hosts_array = <<FromNat(50), FromNat(10), FromNat(2)>>
       /\ Len(subnets) = 3
       /\ subnets[1].network = <<192, 168, 1, 0>>
       /\ subnets[2].network = subnets[1].next_subnet
       /\ <<subnets[1].next_cidr, subnets[2].next_cidr, subnets[3].next_cidr>> = <<26, 28, 30>>
       /\ <<subnets[1].real_hosts, subnets[2].real_hosts, subnets[3].real_hosts>>
             = <<FromNat(62), FromNat(14), FromNat(2)>>

\* the call returned InvalidIpAddress or InvalidCidr
ReturnedError == pc = "returned" /\ calc_result.tag \in {"InvalidIpAddress", "InvalidCidr"}

\* C10: an error is returned only by the construction of the first block:
\* once a block is appended the cursor is a parseable address with a prefix
\* <= 32, a call that returns an error has appended no block, and an empty
\* host list returns Ok with no block whatever the base network and prefix.
C10_ErrorOnlyAtFirstBlock ==
    /\ (ReturnedError => subnets = <<>>)
    /\ (subnets # <<>> => Parses(network_tmp) /\ cidr_tmp <= 32)
    /\ ((pc = "returned" /\ calc_args.hosts = <<>>) => calc_result.tag = "Ok" /\ subnets = <<>>)

\* three blocks appended from a cursor that went through to_string twice
C10_Witness ==
    /\ pc = "returned"
    /\ calc_result.tag = "Ok"
    /\ Len(subnets) = 3
    /\ subnets[3].network = <<192, 168, 1, 80>>
    /\ network_tmp = Str(192, 168, 1, 82)

====
